---- MODULE Spec2Model ----
(***************************************************************************)
(* EduSloth frontend: the transcription / AI-generation status pollers     *)
(* (zustand stores transcriptionStore and aiGenerationStore), driven by    *)
(* the content detail page's handlers, against the REST backend and its    *)
(* external worker.                                                        *)
(*                                                                         *)
(* The two stores share no state, so one behaviour follows one of them:    *)
(* storeKind is chosen in Init and never changes.  A job key is the        *)
(* content id (transcriptions) or content id plus generation type          *)
(* (generations); both are drawn from Keys.                                *)
(*                                                                         *)
(* Time is counted in poll intervals: one clock unit is IntervalMs.        *)
(* Everything JavaScript runs inside one macrotask (a handler up to its    *)
(* first await on the network, a response's continuation chain, a timer    *)
(* callback up to its await) is one action.                                *)
(*                                                                         *)
(* Around the pollers: the content detail page's unmount (SpecPage), the   *)
(* components kept in localStorage, Todo, FlashcardSet and StudyPlan        *)
(* (SpecLocal), the axios instance with its interceptors (SpecApi), and   *)
(* the stores authStore (SpecAuth), contentStore (SpecContent) and         *)
(* reminderStore (SpecReminder), whose fields are the record state.        *)
(* Each specification follows one of these views; the variables of the     *)
(* others keep their initial values.                                       *)
(***************************************************************************)
EXTENDS Integers, FiniteSets, Sequences, TLC

\* ---------------------------------------------------------------- bounds
\* A behaviour holds at most MaxEvents user events (runs of a start handler,
\* direct status fetches).  A response arrives within MaxLatency poll
\* intervals of its request.  A lone poll session is followed through its
\* whole safety window; with a second user event in play, time is followed up
\* to MaxClock poll intervals.
MaxEvents == 2
MaxLatency == 1
MaxClock == 0
\* A behaviour of a localStorage component holds at most MaxOps steps: mounts,
\* unmounts, handler runs and milliseconds passing.
MaxOps == 7
\* API calls made in a behaviour of the API layer.
MaxCalls == 3
\* The number of API calls made after which no action of the auth store
\* starts (a call that an action in progress makes next is always made).
MaxAuthCalls == 2

\* ------------------------------------------------------ program constants
IntervalMs == 5000        \* intervalMs = 5000, the only value the page uses
MaxWindowMs == 600000     \* 10 * 60 * 1000

Keys == {"k1", "k2"}
Status == {"pending", "processing", "completed", "failed"}
Terminal == {"completed", "failed"}
NULL == "null"

VARIABLES
  storeKind,   \* the store this behaviour follows: "transcription", "generation",
               \* "auth", "content" or "reminder", or "none"
  job,         \* server: job[k] is the status of key k's job, or "none"
  current,     \* currentTranscription / currentGeneration
  isLoading,   \* the store's isLoading
  error,       \* the store's error
  flows,       \* flows[f]: one run of handleStartTranscription / handleStartGeneration
  requests,    \* HTTP requests in flight, each with the answer the server gave
  directCount, \* direct fetches issued so far
  clock,       \* elapsed poll intervals
  props,       \* the view under study and the props it was given
  view,        \* "fresh" (never mounted), "mounted", "unmounted" or "crashed"
  storage,     \* localStorage: the text held by each slot the view uses
  todos,       \* Todo: the todos state
  cards,       \* FlashcardSet: the cards state
  goals,       \* StudyPlan: the goals state
  sessions,    \* StudyPlan: the sessions state
  nowMs,       \* Date.now()
  location,    \* window.location.href
  calls,       \* calls of the API functions in flight
  lastOp,      \* the last handler run, with its arguments
  state        \* the rest of the state of the component or store under study

\* The state of the pollers, and the state of the browser around them.
pollerVars == <<storeKind, job, current, isLoading, error, flows, requests, directCount, clock>>
browserVars == <<props, storage, todos, cards, goals, sessions, nowMs, location, calls, lastOp,
                 state>>

vars == <<pollerVars, view, browserVars>>

Flows == 1..MaxEvents

\* -------------------------------------------------------- browser values
\* localStorage slots (the components' default storage keys, and the token).
TodoKey == "edusloth-todos"
FlashcardKey == "edusloth-flashcards"
GoalsKey == "edusloth-study-goals"
SessionsKey == "edusloth-study-sessions"
TokenKey == "token"

\* What a slot can hold: nothing (getItem returns null), the empty string,
\* text that is not JSON, the JSON text of an array, or the bearer token.
Absent == [kind |-> "absent", val |-> <<>>]
EmptyText == [kind |-> "empty", val |-> <<>>]
Malformed == [kind |-> "malformed", val |-> <<>>]
Token == [kind |-> "token", val |-> <<>>]

\* A Date object, the string JSON turns it into, and a field that is not set.
\* Date.prototype.toJSON gives the ISO string; JSON.parse leaves it a string.
Date(ms) == [type |-> "Date", ms |-> ms]
Undefined == [type |-> "undefined", ms |-> 0]
DateToJSON(d) == IF d.type = "Date" THEN [type |-> "string", ms |-> d.ms] ELSE d

\* What JSON.stringify makes of one item of each collection.
TodoToJSON(t) == [t EXCEPT !.createdAt = DateToJSON(@)]
CardToJSON(c) == [c EXCEPT !.lastReviewed = DateToJSON(@)]
GoalToJSON(g) == g
SessionToJSON(s) == [s EXCEPT !.date = DateToJSON(@)]

\* What JSON.stringify makes of one item of the collection kept under key.
ItemToJSON(key, x) ==
  CASE key = TodoKey -> TodoToJSON(x)
    [] key = FlashcardKey -> CardToJSON(x)
    [] key = GoalsKey -> GoalToJSON(x)
    [] key = SessionsKey -> SessionToJSON(x)

\* JSON.stringify of the collection kept under key.
JSONstringify(key, c) ==
  [kind |-> "json", val |-> [i \in 1..Len(c) |-> ItemToJSON(key, c[i])]]

\* JSON.parse: the value, or a SyntaxError.
JSONparse(text) ==
  IF text.kind = "json" THEN [thrown |-> FALSE, value |-> text.val]
  ELSE [thrown |-> TRUE, value |-> <<>>]

\* A faulty load: JSON.parse outside any try block.
loadUncaught(text, cur) ==
  IF text.kind \in {"absent", "empty"} THEN [thrown |-> FALSE, value |-> cur]
  ELSE [thrown |-> JSONparse(text).thrown, value |-> JSONparse(text).value]

\* The load effects' `if (saved) { try { set(JSON.parse(saved)) } catch ... }`:
\* the collection after the effect, cur being the one before.
load(text, cur) ==
  IF text.kind \in {"absent", "empty"} THEN [thrown |-> FALSE, value |-> cur]
  ELSE IF JSONparse(text).thrown THEN [thrown |-> FALSE, value |-> cur]
  ELSE [thrown |-> FALSE, value |-> JSONparse(text).value]

\* Todo's and FlashcardSet's save effect: `if (... && c.length > 0) setItem`.
saveNonEmpty(st, key, c) ==
  IF Len(c) > 0 THEN [st EXCEPT ![key] = JSONstringify(key, c)] ELSE st

\* StudyPlan's save effects: setItem unconditionally.
save(st, key, c) ==
  [st EXCEPT ![key] = JSONstringify(key, c)]

\* The collections the showcase page passes as initial props, shortened to
\* one item each (their ids are fixed strings, no clock value).
sampleFlashcards ==
  <<[id |-> 901, question |-> "q", answer |-> "a", confidence |-> "high",
     lastReviewed |-> Date(0)]>>
sampleGoals == <<[id |-> 901, title |-> "t", completed |-> FALSE]>>
sampleSessions == <<[id |-> 901, goalId |-> 901, date |-> Date(0), duration |-> 60]>>

\* The views: the content detail page (with the pollers), and the three
\* components kept in localStorage.
PageProps == [component |-> "ContentDetailPage"]

\* The slots a view uses.
SlotsOf(component) ==
  CASE component = "Todo" -> {TodoKey}
    [] component = "FlashcardSet" -> {FlashcardKey}
    [] component = "StudyPlan" -> {GoalsKey, SessionsKey}
    [] component = "api" -> {TokenKey}
    [] OTHER -> {}

NoOp == [op |-> "none", id |-> 0, n |-> 0, count |-> 0]

\* null for an index or an id held in React state, and a held value.
NullIndex == <<>>
Index(i) == <<i>>

\* The React state a component starts with at each mount, beyond its
\* collections: FlashcardSet's mode, currentCard and shuffled, and the goal
\* chosen in StudyPlan's session form.
InitialState(component) ==
  CASE component = "FlashcardSet" ->
         [mode |-> "edit", currentCard |-> NullIndex, shuffled |-> FALSE]
    [] component = "StudyPlan" -> [newSession |-> [goalId |-> NullIndex]]
    [] OTHER -> <<>>

\* The browser as the pollers' specifications see it.
PageInit ==
  /\ props = PageProps
  /\ view = "mounted"
  /\ storage = [k \in SlotsOf(PageProps.component) |-> Absent]
  /\ todos = <<>>
  /\ cards = <<>>
  /\ goals = <<>>
  /\ sessions = <<>>
  /\ nowMs = 0
  /\ location = "/content"
  /\ calls = {}
  /\ lastOp = NoOp
  /\ state = <<>>

\* ------------------------------------------------------------ job records
\* null for currentTranscription / currentGeneration
NullJob == [key |-> "-", status |-> NULL, text |-> "-"]

\* The record the status endpoint returns: the result payload is present
\* exactly when the job is completed.
JobRecord(k, st) ==
  [key |-> k, status |-> st, text |-> IF st = "completed" THEN "hello" ELSE "-"]

\* ----------------------------------------------------------------- server
\* POST .../start: creates the job as pending, or fails.
ServerStart == {"ok", "err"}

\* GET status: the job as it is now, 404 when there is none, or a failure.
ServerGet(k) == (IF job[k] = "none" THEN {"404"} ELSE {job[k]}) \cup {"err"}

\* The external worker moves a job pending -> processing -> completed | failed.
WorkerNext(st) ==
  CASE st = "pending" -> {"processing"}
    [] st = "processing" -> {"completed", "failed"}
    [] OTHER -> {}

WorkerStep(k) ==
  /\ \E st \in WorkerNext(job[k]) : job' = [job EXCEPT ![k] = st]
  /\ UNCHANGED <<view, browserVars, storeKind, current, isLoading, error, flows, requests, directCount, clock>>

\* ------------------------------------------------------------ store steps
StartFailedMsg ==
  IF storeKind = "transcription" THEN "Failed to start transcription"
  ELSE "Failed to start generation"

FetchFailedMsg ==
  IF storeKind = "transcription" THEN "Failed to fetch transcription"
  ELSE "Failed to fetch generation"

\* The store after `set({ isLoading: true, error: null })`.
beginRequest(s) == [s EXCEPT !.isLoading = TRUE, !.error = NULL]

\* A faulty fetchOk: clears the loading flag and forgets to store the job.
fetchOkNotStored(s, k, st) == [s EXCEPT !.isLoading = FALSE]

\* fetch*: the request returned job status st for key k.
fetchOk(s, k, st) == [s EXCEPT !.current = JobRecord(k, st), !.isLoading = FALSE]

\* A faulty fetchNotFound: treats 404 like any other failure.
fetchNotFoundAsError(s) ==
  [s EXCEPT !.isLoading = FALSE, !.current = NullJob, !.error = FetchFailedMsg]

\* fetch*: the request failed with 404.
fetchNotFound(s) == [s EXCEPT !.isLoading = FALSE, !.current = NullJob]

\* A faulty fetchFailed: also drops the current job.
fetchFailedDropsJob(s) ==
  [s EXCEPT !.isLoading = FALSE, !.error = FetchFailedMsg, !.current = NullJob]

\* fetch*: the request failed otherwise.
fetchFailed(s) == [s EXCEPT !.isLoading = FALSE, !.error = FetchFailedMsg]

\* fetchTranscription / fetchSpecificGeneration after the await.
fetchSettle(s, k, resp) ==
  IF resp \in Status THEN fetchOk(s, k, resp)
  ELSE IF resp = "404" THEN fetchNotFound(s)
  ELSE fetchFailed(s)

\* What fetch* returns: the job's status, or NULL for a null return.
fetchResult(resp) == IF resp \in Status THEN resp ELSE NULL

\* A faulty checkStatus: goes on polling a failed job.
checkStatusFailedGoesOn(res) == res \in {"processing", "pending", "failed"}

\* A faulty checkStatus: goes on polling when the fetch returned null.
checkStatusNullGoesOn(res) == res \notin Terminal

\* checkStatus: TRUE to keep polling.
checkStatus(res) == res \in {"processing", "pending"}

\* start*: the catch block.
startFailed(s) == [s EXCEPT !.isLoading = FALSE, !.error = StartFailedMsg]

Store == [current |-> current, isLoading |-> isLoading, error |-> error]

SetStore(s) ==
  /\ current' = s.current
  /\ isLoading' = s.isLoading
  /\ error' = s.error

\* --------------------------------------------------------------- requests
\* A request in flight: who awaits it, the answer the server gave, how long it
\* has been in flight, and the current-job record at the moment it was issued;
\* for an interval tick also the store's error at that moment.
Request(f, kind, n, k, resp, cur) ==
  [flow |-> f, kind |-> kind, n |-> n, key |-> k, resp |-> resp, age |-> 0,
   before |-> cur, errorBefore |-> IF kind = "tick" THEN error ELSE NULL]

\* Why checkStatus returned false.
Cause(resp) ==
  IF resp \in Terminal THEN "terminal" ELSE IF resp = "404" THEN "nojob" ELSE "error"

IdleFlow ==
  [key |-> "-", phase |-> "idle", intervalActive |-> FALSE, setup |-> 0,
   fetchCount |-> 0, stopCause |-> "none", startRet |-> "none",
   startFetches |-> 0, firstObs |-> "none"]

\* The time in milliseconds, and the time flow f's timers were created.
Now == clock * IntervalMs
SetupMs(f) == flows[f].setup * IntervalMs

Init ==
  /\ storeKind \in {"transcription", "generation"}
  /\ job = [k \in Keys |-> "none"]
  /\ current = NullJob
  /\ isLoading = FALSE
  /\ error = NULL
  /\ flows = [f \in Flows |-> IdleFlow]
  /\ requests = {}
  /\ directCount = 0
  /\ clock = 0
  /\ PageInit

\* ------------------------------------------------------------ start flows
\* The next unused flow: flows are used in order.
NextFlow(f) == flows[f].phase = "idle" /\ \A g \in Flows : g < f => flows[g].phase # "idle"

\* Keys are interchangeable: the first flow's key is called k1.
FlowKeys(f) == IF f = 1 THEN {"k1"} ELSE Keys

\* The user events so far.
NumEvents == directCount + Cardinality({f \in Flows : flows[f].phase # "idle"})

\* Only one flow has been started and no direct fetch made.
LoneSession == directCount = 0 /\ \A f \in Flows : f > 1 => flows[f].phase = "idle"

\* start*: `set({ isLoading: true, error: null })`, then the start request.
startBegin(f, k) ==
  /\ NextFlow(f)
  /\ NumEvents < MaxEvents
  /\ k \in FlowKeys(f)
  /\ clock <= MaxClock
  /\ view = "mounted"
  /\ SetStore(beginRequest(Store))
  /\ \E resp \in ServerStart :
       /\ requests' = requests \cup {Request(f, "start", 1, k, resp, current)}
       /\ job' = IF resp = "ok" THEN [job EXCEPT ![k] = "pending"] ELSE job
  /\ flows' = [flows EXCEPT ![f] = [@ EXCEPT !.key = k, !.phase = "start"]]
  /\ UNCHANGED <<view, browserVars, storeKind, directCount, clock>>

\* The page's "Start Transcription" button: rendered while there is no
\* current transcription, disabled while the store is loading.
handleStartTranscription(f, k) ==
  /\ storeKind = "transcription"
  /\ current = NullJob
  /\ ~isLoading
  /\ startBegin(f, k)

\* The page's generate buttons: disabled while the store is loading.
handleStartGeneration(f, k) ==
  /\ storeKind = "generation"
  /\ ~isLoading
  /\ startBegin(f, k)

\* poll*Status up to its first await: checkStatus calls fetch*, which sets
\* the loading flag and issues the status request.  s is the store so far.
pollBegin(f, k, s, ret, obs, others) ==
  /\ SetStore(beginRequest(s))
  /\ \E resp \in ServerGet(k) :
       requests' = others \cup {Request(f, "initial", 1, k, resp, s.current)}
  /\ flows' = [flows EXCEPT ![f] = [@ EXCEPT !.phase = "initial", !.fetchCount = 1,
                                              !.startRet = ret, !.firstObs = obs]]

\* startGeneration after the await: returns true, or sets the error and
\* returns false; either way handleStartGeneration goes on to poll.
startGenerationSettle(f, r) ==
  /\ storeKind = "generation"
  /\ r \in requests /\ r.flow = f /\ r.kind = "start"
  /\ LET ok == r.resp = "ok"
         s1 == IF ok THEN Store ELSE startFailed(Store)
     IN pollBegin(f, r.key, s1, IF ok THEN "true" ELSE "false", "none", requests \ {r})
  /\ UNCHANGED <<view, browserVars, storeKind, job, directCount, clock>>

\* startNewTranscription after `await startTranscription`: on success the
\* initial status request goes out; on failure the catch block runs, the
\* action returns false and handleStartTranscription goes on to poll.
startNewTranscriptionSettle(f, r) ==
  /\ storeKind = "transcription"
  /\ r \in requests /\ r.flow = f /\ r.kind = "start"
  /\ IF r.resp = "ok"
     THEN /\ \E resp \in ServerGet(r.key) :
               requests' = (requests \ {r}) \cup
                           {Request(f, "startFetch", 1, r.key, resp, current)}
          /\ flows' = [flows EXCEPT ![f] = [@ EXCEPT !.phase = "startFetch",
                                                     !.startFetches = 1]]
          /\ UNCHANGED <<current, isLoading, error>>
     ELSE pollBegin(f, r.key, startFailed(Store), "false", "none", requests \ {r})
  /\ UNCHANGED <<view, browserVars, storeKind, job, directCount, clock>>

\* startNewTranscription's own status fetch, when it answered with a job.
startFetched(s, k, st) == [s EXCEPT !.current = JobRecord(k, st), !.isLoading = FALSE]

\* startNewTranscription after `await getTranscription`: stores the job and
\* returns true, or (any failure, 404 included) runs the catch block and
\* returns false; then handleStartTranscription polls.
startNewTranscriptionFetched(f, r) ==
  /\ storeKind = "transcription"
  /\ r \in requests /\ r.flow = f /\ r.kind = "startFetch"
  /\ IF r.resp \in Status
     THEN pollBegin(f, r.key, startFetched(Store, r.key, r.resp), "true", r.resp,
                    requests \ {r})
     ELSE pollBegin(f, r.key, startFailed(Store), "false", "none", requests \ {r})
  /\ UNCHANGED <<view, browserVars, storeKind, job, directCount, clock>>

\* ---------------------------------------------------------- poll sessions
\* The first status a generation flow sees after its start request
\* succeeded is the one its initial check brings.
FirstObs(fl, resp) ==
  IF storeKind = "generation" /\ fl.startRet = "true" /\ resp \in Status
  THEN resp ELSE fl.firstObs

\* poll*Status after the initial check: set up the interval and the safety
\* timeout, or return.
pollInitialSettle(f, r) ==
  /\ r \in requests /\ r.flow = f /\ r.kind = "initial"
  /\ SetStore(fetchSettle(Store, r.key, r.resp))
  /\ requests' = requests \ {r}
  /\ flows' = [flows EXCEPT ![f] =
       IF checkStatus(fetchResult(r.resp))
       THEN [@ EXCEPT !.phase = "polling", !.intervalActive = TRUE,
                      !.setup = clock,
                      !.firstObs = FirstObs(flows[f], r.resp)]
       ELSE [@ EXCEPT !.phase = "polling", !.stopCause = Cause(r.resp),
                      !.firstObs = FirstObs(flows[f], r.resp)]]
  /\ UNCHANGED <<view, browserVars, storeKind, job, directCount, clock>>

\* The interval callback up to its await.
\* A faulty TickDue: the first tick runs as soon as the interval is set up.
TickDueAtOnce(f) == Now >= SetupMs(f) + (flows[f].fetchCount - 1) * IntervalMs

\* A faulty TimeoutDue: an 11 minute safety window.
TimeoutDueLate(f) == Now >= SetupMs(f) + 11 * 60 * 1000

\* setInterval(..., intervalMs): the tick after the ones already run is due.
\* (fetchCount counts the initial check and the ticks run so far.)
TickDue(f) == Now >= SetupMs(f) + flows[f].fetchCount * IntervalMs

\* setTimeout(..., 10 * 60 * 1000) is due.
TimeoutDue(f) == Now >= SetupMs(f) + MaxWindowMs

pollTick(f) ==
  /\ flows[f].intervalActive
  /\ TickDue(f)
  /\ SetStore(beginRequest(Store))
  /\ \E resp \in ServerGet(flows[f].key) :
       requests' = requests \cup
         {Request(f, "tick", flows[f].fetchCount + 1, flows[f].key, resp, current)}
  /\ flows' = [flows EXCEPT ![f] = [@ EXCEPT !.fetchCount = @ + 1]]
  /\ UNCHANGED <<view, browserVars, storeKind, job, directCount, clock>>

\* The interval callback after its await: clearInterval unless checkStatus
\* said to go on.
pollTickSettle(f, r) ==
  /\ r \in requests /\ r.flow = f /\ r.kind = "tick"
  /\ SetStore(fetchSettle(Store, r.key, r.resp))
  /\ requests' = requests \ {r}
  /\ flows' = [flows EXCEPT ![f] =
       IF checkStatus(fetchResult(r.resp)) THEN @
       ELSE [@ EXCEPT !.intervalActive = FALSE,
                      !.stopCause = IF @ = "none" THEN Cause(r.resp) ELSE @]]
  /\ UNCHANGED <<view, browserVars, storeKind, job, directCount, clock>>

\* The safety timeout's callback: clearInterval.  For an interval already
\* cleared it does nothing, and that step is left out.  When the timeout and
\* a tick are due at the same time either may run first.
safetyTimeout(f) ==
  /\ flows[f].intervalActive
  /\ TimeoutDue(f)
  /\ flows' = [flows EXCEPT ![f] = [@ EXCEPT !.intervalActive = FALSE,
                                              !.stopCause = "timeout"]]
  /\ UNCHANGED <<view, browserVars, storeKind, job, current, isLoading, error, requests, directCount, clock>>

\* ---------------------------------------------------------- direct fetch
\* fetchTranscription from the page's mount effect, fetchSpecificGeneration
\* from handleViewGeneration: up to the await.
fetchDirect(k) ==
  /\ NumEvents < MaxEvents
  /\ clock <= MaxClock
  /\ view = "mounted"
  /\ SetStore(beginRequest(Store))
  /\ \E resp \in ServerGet(k) :
       requests' = requests \cup {Request(0, "direct", directCount + 1, k, resp, current)}
  /\ directCount' = directCount + 1
  /\ UNCHANGED <<view, browserVars, storeKind, job, flows, clock>>

fetchDirectSettle(r) ==
  /\ r \in requests /\ r.kind = "direct"
  /\ SetStore(fetchSettle(Store, r.key, r.resp))
  /\ requests' = requests \ {r}
  /\ UNCHANGED <<view, browserVars, storeKind, job, flows, directCount, clock>>

\* ------------------------------------------------------------------ time
\* A timer that is due runs before time moves on.
TimerDue(f) == flows[f].intervalActive /\ (TickDue(f) \/ TimeoutDue(f))

\* One poll interval passes.  Time is followed only while an interval runs.
advanceClock ==
  /\ \E f \in Flows : flows[f].intervalActive
  /\ \A f \in Flows : ~TimerDue(f)
  /\ \A r \in requests : r.age < MaxLatency
  /\ LoneSession \/ clock < MaxClock
  /\ clock' = clock + 1
  /\ requests' = {[r EXCEPT !.age = @ + 1] : r \in requests}
  /\ UNCHANGED <<view, browserVars, storeKind, job, current, isLoading, error, flows, directCount>>

Next ==
  \/ \E k \in Keys : WorkerStep(k)
  \/ \E f \in Flows, k \in Keys : handleStartTranscription(f, k)
  \/ \E f \in Flows, k \in Keys : handleStartGeneration(f, k)
  \/ \E f \in Flows, r \in requests : startGenerationSettle(f, r)
  \/ \E f \in Flows, r \in requests : startNewTranscriptionSettle(f, r)
  \/ \E f \in Flows, r \in requests : startNewTranscriptionFetched(f, r)
  \/ \E f \in Flows, r \in requests : pollInitialSettle(f, r)
  \/ \E f \in Flows : pollTick(f)
  \/ \E f \in Flows, r \in requests : pollTickSettle(f, r)
  \/ \E f \in Flows : safetyTimeout(f)
  \/ \E k \in Keys : fetchDirect(k)
  \/ \E r \in requests : fetchDirectSettle(r)
  \/ advanceClock

Spec == Init /\ [][Next]_vars

\* One start flow on one key and nothing else from the user: a lone poll
\* session, followed through its whole safety window.
NextLone ==
  \/ WorkerStep("k1")
  \/ handleStartTranscription(1, "k1")
  \/ handleStartGeneration(1, "k1")
  \/ \E r \in requests : startGenerationSettle(1, r)
  \/ \E r \in requests : startNewTranscriptionSettle(1, r)
  \/ \E r \in requests : startNewTranscriptionFetched(1, r)
  \/ \E r \in requests : pollInitialSettle(1, r)
  \/ pollTick(1)
  \/ \E r \in requests : pollTickSettle(1, r)
  \/ safetyTimeout(1)
  \/ advanceClock

SpecLone == Init /\ [][NextLone]_vars

\* The content detail page unmounts (the user navigates away).  Its effect
\* returns no cleanup and the page never clears a timer: the stores and their
\* timers live outside the component.
unmountPage ==
  /\ props.component = "ContentDetailPage"
  /\ view = "mounted"
  /\ view' = "unmounted"
  /\ UNCHANGED <<pollerVars, browserVars>>

\* A lone poll session, and the page unmounting at any moment.
NextPage ==
  \/ WorkerStep("k1")
  \/ handleStartTranscription(1, "k1")
  \/ handleStartGeneration(1, "k1")
  \/ \E r \in requests : startGenerationSettle(1, r)
  \/ \E r \in requests : startNewTranscriptionSettle(1, r)
  \/ \E r \in requests : startNewTranscriptionFetched(1, r)
  \/ \E r \in requests : pollInitialSettle(1, r)
  \/ pollTick(1)
  \/ \E r \in requests : pollTickSettle(1, r)
  \/ safetyTimeout(1)
  \/ advanceClock
  \/ unmountPage

SpecPage == Init /\ [][NextPage]_vars

\* ======================================= components kept in localStorage
\* Todo, FlashcardSet and StudyPlan, one of them per behaviour.  A handler
\* runs with the render that follows it: the state update and the save
\* effects the update triggers are one action.
LocalProps ==
  {[component |-> "Todo", initialTodos |-> <<>>, initialCards |-> <<>>,
    initialGoals |-> <<>>, initialSessions |-> <<>>]}
  \cup {[component |-> "FlashcardSet", initialTodos |-> <<>>, initialCards |-> c,
         initialGoals |-> <<>>, initialSessions |-> <<>>] : c \in {<<>>, sampleFlashcards}}
  \cup {[component |-> "StudyPlan", initialTodos |-> <<>>, initialCards |-> <<>>,
         initialGoals |-> p[1], initialSessions |-> p[2]] :
          p \in {<<(<<>>), (<<>>)>>, <<sampleGoals, sampleSessions>>}}

\* What a slot may hold when the component is first mounted.
FoundInSlot == {Absent, EmptyText, Malformed}

LocalInit ==
  /\ storeKind = "none"
  /\ job = [k \in Keys |-> "none"]
  /\ current = NullJob
  /\ isLoading = FALSE
  /\ error = NULL
  /\ flows = [f \in Flows |-> IdleFlow]
  /\ requests = {}
  /\ directCount = 0
  /\ clock = 0
  /\ props \in LocalProps
  /\ view = "fresh"
  /\ storage \in [SlotsOf(props.component) -> FoundInSlot]
  /\ todos = <<>>
  /\ cards = <<>>
  /\ goals = <<>>
  /\ sessions = <<>>
  /\ nowMs = 0
  /\ location = "/components"
  /\ calls = {}
  /\ lastOp = NoOp
  /\ state = InitialState(props.component)

\* The handler just run: its name, the id it was given, a count it reports,
\* and how many handlers have run so far.
Op(name, id, n) == [op |-> name, id |-> id, n |-> n, count |-> lastOp.count + 1]

Ids(s) == {s[i].id : i \in 1..Len(s)}

\* A component in use: mounted, with handler runs left in this behaviour.
InUse(component) ==
  /\ props.component = component
  /\ view = "mounted"
  /\ lastOp.count < MaxOps

\* Date.now().toString(): the decimal digits of the clock value, which name it.
DateNowToString == nowMs

\* A millisecond passes.
clockTick ==
  /\ props.component \in {"Todo", "FlashcardSet", "StudyPlan"}
  /\ lastOp.count < MaxOps
  /\ nowMs' = nowMs + 1
  /\ lastOp' = Op("clockTick", 0, 0)
  /\ UNCHANGED <<pollerVars, state, view, props, storage, todos, cards, goals, sessions,
                 location, calls>>

\* The component is mounted: first render with the initial props, then the
\* load effect and the save effects in order, then the render the load
\* effect's state updates cause, with its save effects.
mount ==
  /\ props.component \in {"Todo", "FlashcardSet", "StudyPlan"}
  /\ view \in {"fresh", "unmounted"}
  /\ lastOp.count < MaxOps
  /\ LET lt == load(storage[TodoKey], props.initialTodos)
         lc == load(storage[FlashcardKey], props.initialCards)
         lg == load(storage[GoalsKey], props.initialGoals)
         ls == load(storage[SessionsKey], props.initialSessions)
     IN CASE props.component = "Todo" ->
               /\ todos' = lt.value
               /\ storage' = saveNonEmpty(
                    saveNonEmpty(storage, TodoKey, props.initialTodos),
                    TodoKey, lt.value)
               /\ view' = IF lt.thrown THEN "crashed" ELSE "mounted"
               /\ UNCHANGED <<cards, goals, sessions>>
          [] props.component = "FlashcardSet" ->
               /\ cards' = lc.value
               /\ storage' = saveNonEmpty(
                    saveNonEmpty(storage, FlashcardKey, props.initialCards),
                    FlashcardKey, lc.value)
               /\ view' = IF lc.thrown THEN "crashed" ELSE "mounted"
               /\ UNCHANGED <<todos, goals, sessions>>
          [] props.component = "StudyPlan" ->
               /\ goals' = lg.value
               /\ sessions' = ls.value
               /\ storage' = save(save(storage, GoalsKey, lg.value),
                                  SessionsKey, ls.value)
               /\ view' = IF lg.thrown \/ ls.thrown THEN "crashed" ELSE "mounted"
               /\ UNCHANGED <<todos, cards>>
  /\ lastOp' = Op("mount", 0, 0)
  /\ state' = InitialState(props.component)
  /\ UNCHANGED <<pollerVars, props, nowMs, location, calls>>

\* The component is unmounted; its state is kept here as it was last rendered.
unmount ==
  /\ props.component \in {"Todo", "FlashcardSet", "StudyPlan"}
  /\ view = "mounted"
  /\ lastOp.count < MaxOps
  /\ view' = "unmounted"
  /\ lastOp' = Op("unmount", 0, 0)
  /\ UNCHANGED <<pollerVars, state, props, storage, todos, cards, goals, sessions, nowMs,
                 location, calls>>

\* ------------------------------------------------------------------- Todo
\* setTodos(c), the render, and the save effect.
setTodos(c, op) ==
  /\ InUse("Todo")
  /\ todos' = c
  /\ storage' = saveNonEmpty(storage, TodoKey, c)
  /\ lastOp' = op
  /\ UNCHANGED <<pollerVars, state, view, props, cards, goals, sessions, nowMs, location, calls>>

handleAddTodo(text) ==
  setTodos(Append(todos, [id |-> DateNowToString, text |-> text, completed |-> FALSE,
                          createdAt |-> Date(nowMs)]),
           Op("handleAddTodo", DateNowToString, 0))

toggleComplete(id) ==
  /\ id \in Ids(todos)
  /\ setTodos([i \in 1..Len(todos) |->
                IF todos[i].id = id THEN [todos[i] EXCEPT !.completed = ~@] ELSE todos[i]],
              Op("toggleComplete", id, 0))

deleteTodo(id) ==
  /\ id \in Ids(todos)
  /\ setTodos(SelectSeq(todos, LAMBDA t : t.id # id), Op("deleteTodo", id, 0))

\* The button is rendered while some todo is completed.
clearCompleted ==
  /\ \E i \in 1..Len(todos) : todos[i].completed
  /\ setTodos(SelectSeq(todos, LAMBDA t : ~t.completed), Op("clearCompleted", 0, 0))

\* ----------------------------------------------------------- FlashcardSet
\* setCards(c), the render, and the save effect.  The handler that calls it
\* says what becomes of mode, currentCard and shuffled.
setCards(c, op) ==
  /\ InUse("FlashcardSet")
  /\ cards' = c
  /\ storage' = saveNonEmpty(storage, FlashcardKey, c)
  /\ lastOp' = op
  /\ UNCHANGED <<pollerVars, view, props, todos, goals, sessions, nowMs, location, calls>>

\* The effect that sets the first card as current when entering study mode.
studyEffect(st, c) ==
  IF st.mode = "study" /\ Len(c) > 0 /\ st.currentCard = NullIndex
  THEN [st EXCEPT !.currentCard = Index(0)]
  ELSE st

\* The add form, the card list and its buttons are rendered in edit mode only.
\* handleAddCard with no card being edited.
handleAddCard(q) ==
  /\ InUse("FlashcardSet")
  /\ state.mode = "edit"
  /\ setCards(Append(cards, [id |-> DateNowToString, question |-> q, answer |-> "a",
                             confidence |-> "medium", lastReviewed |-> Undefined]),
              Op("handleAddCard", DateNowToString, 0))
  /\ state' = studyEffect(state, cards')

\* startEditCard(card), then handleAddCard with the form changed to q.
handleEditCard(id, q) ==
  /\ InUse("FlashcardSet")
  /\ state.mode = "edit"
  /\ id \in Ids(cards)
  /\ setCards([i \in 1..Len(cards) |->
                IF cards[i].id = id THEN [cards[i] EXCEPT !.question = q] ELSE cards[i]],
              Op("handleEditCard", id, 0))
  /\ state' = studyEffect(state, cards')

deleteCard(id) ==
  /\ InUse("FlashcardSet")
  /\ state.mode = "edit"
  /\ id \in Ids(cards)
  /\ setCards(SelectSeq(cards, LAMBDA c : c.id # id), Op("deleteCard", id, 0))
  /\ state' = studyEffect(state, cards')

\* The orders [...cards].sort(() => Math.random() - 0.5) can leave the cards in.
Shuffles(c) ==
  {[i \in 1..Len(c) |-> c[p[i]]] :
     p \in {q \in [1..Len(c) -> 1..Len(c)] : \A i, j \in 1..Len(c) : q[i] = q[j] => i = j}}

\* The shuffle button is rendered in study mode while shuffled is false.
shuffleCards ==
  /\ InUse("FlashcardSet")
  /\ state.mode = "study" /\ ~state.shuffled
  /\ \E c \in Shuffles(cards) : setCards(c, Op("shuffleCards", 0, 0))
  /\ state' = studyEffect([state EXCEPT !.currentCard = Index(0), !.shuffled = TRUE], cards')

\* The start button is rendered in edit mode, disabled when there is no card.
startStudying ==
  /\ InUse("FlashcardSet")
  /\ state.mode = "edit"
  /\ Len(cards) > 0
  /\ state' = studyEffect([state EXCEPT !.mode = "study", !.currentCard = Index(0)], cards)
  /\ lastOp' = Op("startStudying", 0, 0)
  /\ UNCHANGED <<pollerVars, view, props, storage, todos, cards, goals, sessions, nowMs,
                 location, calls>>

stopStudying ==
  /\ InUse("FlashcardSet")
  /\ state.mode = "study"
  /\ state' = studyEffect([state EXCEPT !.mode = "edit", !.currentCard = NullIndex], cards)
  /\ lastOp' = Op("stopStudying", 0, 0)
  /\ UNCHANGED <<pollerVars, view, props, storage, todos, cards, goals, sessions, nowMs,
                 location, calls>>

\* A faulty nextCard: goes on past the last card.
nextCardPastEnd(st, c) ==
  IF st.currentCard = NullIndex \/ Len(c) = 0 THEN st
  ELSE [st EXCEPT !.currentCard = Index(@[1] + 1)]

\* nextCard, as a function of the state it was rendered with.
nextCardFrom(st, c) ==
  IF st.currentCard = NullIndex \/ Len(c) = 0 THEN st
  ELSE IF st.currentCard[1] < Len(c) - 1
       THEN [st EXCEPT !.currentCard = Index(@[1] + 1)]
       ELSE [st EXCEPT !.currentCard = NullIndex, !.mode = "edit", !.shuffled = FALSE]

\* The study view's buttons are rendered in study mode with a current card.
nextCard ==
  /\ InUse("FlashcardSet")
  /\ state.mode = "study" /\ state.currentCard # NullIndex /\ Len(cards) > 0
  /\ state' = studyEffect(nextCardFrom(state, cards), cards)
  /\ lastOp' = Op("nextCard", 0, 0)
  /\ UNCHANGED <<pollerVars, view, props, storage, todos, cards, goals, sessions, nowMs,
                 location, calls>>

\* The previous button is disabled on the first card.
previousCard ==
  /\ InUse("FlashcardSet")
  /\ state.mode = "study" /\ state.currentCard # NullIndex /\ Len(cards) > 0
  /\ state.currentCard # Index(0)
  /\ state' = studyEffect([state EXCEPT !.currentCard = Index(@[1] - 1)], cards)
  /\ lastOp' = Op("previousCard", 0, 0)
  /\ UNCHANGED <<pollerVars, view, props, storage, todos, cards, goals, sessions, nowMs,
                 location, calls>>

\* updateConfidence on the current card, then nextCard() with the state the
\* handler was rendered with.
updateConfidence(confidence) ==
  /\ InUse("FlashcardSet")
  /\ state.mode = "study" /\ state.currentCard # NullIndex /\ Len(cards) > 0
  /\ setCards([j \in 1..Len(cards) |->
                 IF j - 1 = state.currentCard[1]
                 THEN [cards[j] EXCEPT !.confidence = confidence,
                                       !.lastReviewed = Date(nowMs)]
                 ELSE cards[j]],
              Op("updateConfidence", cards[state.currentCard[1] + 1].id, 0))
  /\ state' = studyEffect(nextCardFrom(state, cards), cards')

\* -------------------------------------------------------------- StudyPlan
\* setGoals(c), the render, and the goals' save effect.
setGoals(c, op) ==
  /\ InUse("StudyPlan")
  /\ goals' = c
  /\ storage' = save(storage, GoalsKey, c)
  /\ lastOp' = op
  /\ UNCHANGED <<pollerVars, state, view, props, todos, cards, sessions, nowMs, location, calls>>

\* setSessions(c), the render, and the sessions' save effect.  The handler
\* that calls it says what becomes of the session form.
setSessions(c, op) ==
  /\ InUse("StudyPlan")
  /\ sessions' = c
  /\ storage' = save(storage, SessionsKey, c)
  /\ lastOp' = op
  /\ UNCHANGED <<pollerVars, view, props, todos, cards, goals, nowMs, location, calls>>

handleAddGoal(title) ==
  setGoals(Append(goals, [id |-> DateNowToString, title |-> title, completed |-> FALSE]),
           Op("handleAddGoal", DateNowToString, 0))

\* The session form's select lists the goals: onChange keeps the chosen
\* goal's id in newSession.
selectGoal(goalId) ==
  /\ InUse("StudyPlan")
  /\ goalId \in Ids(goals)
  /\ state' = [state EXCEPT !.newSession.goalId = Index(goalId)]
  /\ lastOp' = Op("selectGoal", goalId, 0)
  /\ UNCHANGED <<pollerVars, view, props, storage, todos, cards, goals, sessions, nowMs,
                 location, calls>>

\* handleAddSession: the session gets the goalId held in newSession, and the
\* form is reset.
handleAddSession ==
  /\ InUse("StudyPlan")
  /\ state.newSession.goalId # NullIndex
  /\ setSessions(Append(sessions, [id |-> DateNowToString,
                                   goalId |-> state.newSession.goalId[1],
                                   date |-> Date(nowMs), duration |-> 30]),
                 Op("handleAddSession", DateNowToString, 0))
  /\ state' = [state EXCEPT !.newSession.goalId = NullIndex]

toggleGoalComplete(id) ==
  /\ id \in Ids(goals)
  /\ setGoals([i \in 1..Len(goals) |->
                IF goals[i].id = id THEN [goals[i] EXCEPT !.completed = ~@] ELSE goals[i]],
              Op("toggleGoalComplete", id, 0))

\* startEditGoal(goal), then saveEditGoal with the form's title changed.
saveEditGoal(id, title) ==
  /\ id \in Ids(goals)
  /\ setGoals([i \in 1..Len(goals) |->
                IF goals[i].id = id THEN [goals[i] EXCEPT !.title = title] ELSE goals[i]],
              Op("saveEditGoal", id, 0))

deleteSession(id) ==
  /\ id \in Ids(sessions)
  /\ setSessions(SelectSeq(sessions, LAMBDA s : s.id # id), Op("deleteSession", id, 0))
  /\ UNCHANGED state

\* A faulty deleteGoal: leaves the goal's sessions.
deleteGoalOnly(id) ==
  /\ id \in Ids(goals)
  /\ setGoals(SelectSeq(goals, LAMBDA g : g.id # id),
              Op("deleteGoal", id,
                 Len(SelectSeq(sessions, LAMBDA s : s.goalId = id))))

\* deleteGoal: setGoals and setSessions, then one render and both save effects.
deleteGoal(id) ==
  /\ id \in Ids(goals)
  /\ InUse("StudyPlan")
  /\ goals' = SelectSeq(goals, LAMBDA g : g.id # id)
  /\ sessions' = SelectSeq(sessions, LAMBDA s : s.goalId # id)
  /\ storage' = save(save(storage, GoalsKey, goals'),
                     SessionsKey, sessions')
  /\ lastOp' = Op("deleteGoal", id, Len(SelectSeq(sessions, LAMBDA s : s.goalId = id)))
  /\ UNCHANGED <<pollerVars, state, view, props, todos, cards, nowMs, location, calls>>

\* The ids a handler can be given: clock values and the samples' ids.
ItemIds == 0..MaxOps \cup {901}

NextLocal ==
  \/ clockTick
  \/ mount
  \/ unmount
  \/ handleAddTodo("a")
  \/ \E id \in ItemIds : toggleComplete(id)
  \/ \E id \in ItemIds : deleteTodo(id)
  \/ clearCompleted
  \/ handleAddCard("q")
  \/ \E id \in ItemIds : handleEditCard(id, "q2")
  \/ \E id \in ItemIds : deleteCard(id)
  \/ startStudying
  \/ stopStudying
  \/ shuffleCards
  \/ nextCard
  \/ previousCard
  \/ updateConfidence("low")
  \/ handleAddGoal("t")
  \/ \E id \in ItemIds : selectGoal(id)
  \/ handleAddSession
  \/ \E id \in ItemIds : toggleGoalComplete(id)
  \/ \E id \in ItemIds : saveEditGoal(id, "t2")
  \/ \E id \in ItemIds : deleteSession(id)
  \/ \E id \in ItemIds : deleteGoal(id)

SpecLocal == LocalInit /\ [][NextLocal]_vars

\* ============================================================ the API layer
\* Calls of the api.ts functions through the axios instance and its two
\* interceptors.  A call is recorded with the answer the server will give:
\* an HTTP status, or 0 when no response arrives (network error).
ApiFunctions == {"getCurrentUser", "getContents", "getTranscription"}
HttpStatus == {0, 200, 401, 404, 500}

ApiProps == [component |-> "api"]

ApiInit ==
  /\ storeKind = "none"
  /\ job = [k \in Keys |-> "none"]
  /\ current = NullJob
  /\ isLoading = FALSE
  /\ error = NULL
  /\ flows = [f \in Flows |-> IdleFlow]
  /\ requests = {}
  /\ directCount = 0
  /\ clock = 0
  /\ props = ApiProps
  /\ view = "mounted"
  /\ storage \in [SlotsOf(ApiProps.component) -> {Absent, Token}]
  /\ todos = <<>>
  /\ cards = <<>>
  /\ goals = <<>>
  /\ sessions = <<>>
  /\ nowMs = 0
  /\ location = "/content"
  /\ calls = {}
  /\ lastOp = NoOp
  /\ state = <<>>

\* The request interceptor: the Authorization header, when a token is stored.
requestInterceptor(st) == IF st[TokenKey].kind = "token" THEN "Bearer" ELSE "none"

\* A faulty onRejected: redirects on 401 but keeps the token.
onRejectedKeepsToken(st, loc, status) ==
  IF status = 401 THEN [storage |-> st, location |-> "/login", result |-> "rejected"]
  ELSE [storage |-> st, location |-> loc, result |-> "rejected"]

\* The response interceptor's error handler: error.response is missing when
\* no response arrived.
onRejected(st, loc, status) ==
  IF status # 0 /\ status = 401
  THEN [storage |-> [st EXCEPT ![TokenKey] = Absent], location |-> "/login",
        result |-> "rejected"]
  ELSE [storage |-> st, location |-> loc, result |-> "rejected"]

\* The response interceptor's success handler.
onFulfilled(st, loc) == [storage |-> st, location |-> loc, result |-> "resolved"]

\* An API function is called: the request goes out through the request
\* interceptor.
apiRequest(fn) ==
  /\ props.component = "api"
  /\ lastOp.count < MaxCalls
  /\ \E status \in HttpStatus :
       calls' = calls \cup {[fn |-> fn, n |-> lastOp.count + 1, status |-> status,
                             authorization |-> requestInterceptor(storage)]}
  /\ lastOp' = Op("request", 0, lastOp.count + 1)
  /\ UNCHANGED <<pollerVars, state, view, props, storage, todos, cards, goals, sessions,
                 nowMs, location>>

\* The call's promise settles, through the response interceptor, in its caller.
apiResponse(c) ==
  /\ c \in calls
  /\ LET out == IF c.status = 200 THEN onFulfilled(storage, location)
                ELSE onRejected(storage, location, c.status)
     IN /\ storage' = out.storage
        /\ location' = out.location
        /\ lastOp' = [op |-> out.result, id |-> c.status, n |-> c.n, count |-> lastOp.count]
  /\ calls' = calls \ {c}
  /\ UNCHANGED <<pollerVars, state, view, props, todos, cards, goals, sessions, nowMs>>

NextApi ==
  \/ \E fn \in ApiFunctions : apiRequest(fn)
  \/ \E c \in calls : apiResponse(c)

SpecApi == ApiInit /\ [][NextApi]_vars

\* ============================================================ the auth store
\* useAuthStore over the API layer.  Its state is the record state; token
\* values are the values of the token slot, Absent standing for null.  A user
\* is named by the data the server or the profile form gave.
AccessToken(n) == [kind |-> "token", val |-> <<n>>]

\* The answers the store's actions tell apart: success, 401 (which the
\* response interceptor acts on) and any other failure.
AuthAnswers == {200, 401, 500}

\* The store as created when the module is loaded.
AuthState(token) ==
  [user |-> NULL, token |-> token, isLoading |-> FALSE, isAuthenticated |-> FALSE,
   error |-> NULL]

AuthInit ==
  /\ storeKind = "auth"
  /\ job = [k \in Keys |-> "none"]
  /\ current = NullJob
  /\ isLoading = FALSE
  /\ error = NULL
  /\ flows = [f \in Flows |-> IdleFlow]
  /\ requests = {}
  /\ directCount = 0
  /\ clock = 0
  /\ props = ApiProps
  /\ view = "mounted"
  /\ storage \in [SlotsOf(ApiProps.component) -> {Absent, Token}]
  /\ todos = <<>>
  /\ cards = <<>>
  /\ goals = <<>>
  /\ sessions = <<>>
  /\ nowMs = 0
  /\ location = "/content"
  /\ calls = {}
  /\ lastOp = NoOp
  /\ state = AuthState(storage[TokenKey])

\* A call of an API function on behalf of a store action: the request goes
\* out through the request interceptor with the storage st of that moment.
\* first is the number of the first call of the action, token the token the
\* action holds in a local constant.
AuthCall(fn, action, first, status, st, token) ==
  [fn |-> fn, action |-> action, n |-> lastOp.count + 1, first |-> first,
   status |-> status, authorization |-> requestInterceptor(st), token |-> token]

\* An action's promise was resolved with value (1 for true, 0 for false).
Returned(action, value, first) ==
  [op |-> action, id |-> value, n |-> first, count |-> lastOp.count]

\* The response interceptor applied to the answer of call c.
Intercepted(c) ==
  IF c.status = 200 THEN onFulfilled(storage, location)
  ELSE onRejected(storage, location, c.status)

\* window.location.href was assigned: the document is about to be replaced.
ViewAfter(out) == IF out.location # location \/ out.storage # storage THEN "leaving" ELSE view

\* login up to its first await, as a function of the store.
loginBegin(s) == [s EXCEPT !.isLoading = TRUE, !.error = NULL]

\* login(email, password): up to the await of the login request.
login ==
  /\ storeKind = "auth" /\ view = "mounted"
  /\ lastOp.count < MaxAuthCalls
  /\ state' = loginBegin(state)
  /\ \E status \in AuthAnswers :
       calls' = calls \cup
         {AuthCall("login", "login", lastOp.count + 1, status, storage, Absent)}
  /\ lastOp' = Op("login", 0, lastOp.count + 1)
  /\ UNCHANGED <<pollerVars, view, props, storage, todos, cards, goals, sessions, nowMs,
                 location>>

\* The login request settles: the token is stored and the user data are
\* requested, or the catch block runs.
loginResponse(c) ==
  /\ storeKind = "auth" /\ view = "mounted"
  /\ c \in calls /\ c.fn = "login"
  /\ LET out == Intercepted(c)
     IN IF c.status = 200
        THEN /\ storage' = [out.storage EXCEPT ![TokenKey] = AccessToken(c.first)]
             /\ \E status \in AuthAnswers :
                  calls' = (calls \ {c}) \cup
                    {AuthCall("getCurrentUser", "login", c.first, status, storage',
                              AccessToken(c.first))}
             /\ lastOp' = Op("getCurrentUser", 0, lastOp.count + 1)
             /\ UNCHANGED <<state, location, view>>
        ELSE /\ storage' = out.storage
             /\ location' = out.location
             /\ view' = ViewAfter(out)
             /\ state' = [state EXCEPT !.isLoading = FALSE, !.error = "Failed to login"]
             /\ calls' = calls \ {c}
             /\ lastOp' = Returned("loginReturn", 0, c.first)
  /\ UNCHANGED <<pollerVars, props, todos, cards, goals, sessions, nowMs>>

\* register(email, password, full_name): up to the await of the request.
register ==
  /\ storeKind = "auth" /\ view = "mounted"
  /\ lastOp.count < MaxAuthCalls
  /\ state' = loginBegin(state)
  /\ \E status \in AuthAnswers :
       calls' = calls \cup
         {AuthCall("register", "register", lastOp.count + 1, status, storage, Absent)}
  /\ lastOp' = Op("register", 0, lastOp.count + 1)
  /\ UNCHANGED <<pollerVars, view, props, storage, todos, cards, goals, sessions, nowMs,
                 location>>

\* The register request settles: login is called, or the catch block runs.
registerResponse(c) ==
  /\ storeKind = "auth" /\ view = "mounted"
  /\ c \in calls /\ c.fn = "register"
  /\ LET out == Intercepted(c)
     IN /\ storage' = out.storage
        /\ location' = out.location
        /\ view' = ViewAfter(out)
        /\ IF c.status = 200
           THEN /\ state' = loginBegin(state)
                /\ \E status \in AuthAnswers :
                     calls' = (calls \ {c}) \cup
                       {AuthCall("login", "login", lastOp.count + 1, status, storage, Absent)}
                /\ lastOp' = Op("login", 0, lastOp.count + 1)
           ELSE /\ state' = [state EXCEPT !.isLoading = FALSE, !.error = "Failed to register"]
                /\ calls' = calls \ {c}
                /\ lastOp' = Returned("registerReturn", 0, c.first)
  /\ UNCHANGED <<pollerVars, props, todos, cards, goals, sessions, nowMs>>

\* logout(), as a function of the store.
logout(s) ==
  [s EXCEPT !.user = NULL, !.token = Absent, !.isAuthenticated = FALSE, !.error = NULL]

\* Navbar's handleLogout: logout(), then router.push('/login').
handleLogout ==
  /\ storeKind = "auth" /\ view = "mounted"
  /\ storage' = [storage EXCEPT ![TokenKey] = Absent]
  /\ state' = logout(state)
  /\ location' = "/login"
  /\ lastOp' = [op |-> "logout", id |-> 0, n |-> 0, count |-> lastOp.count]
  /\ UNCHANGED <<pollerVars, view, props, todos, cards, goals, sessions, nowMs, calls>>

\* checkAuth(): without a stored token it returns at once; with one, up to
\* the await of the user data.
checkAuth ==
  /\ storeKind = "auth" /\ view = "mounted"
  /\ IF storage[TokenKey].kind # "token"
     THEN /\ state' = [state EXCEPT !.isAuthenticated = FALSE]
          /\ lastOp' = Returned("checkAuthReturn", 0, 0)
          /\ UNCHANGED calls
     ELSE /\ lastOp.count < MaxAuthCalls
          /\ state' = loginBegin(state)
          /\ \E status \in AuthAnswers :
               calls' = calls \cup
                 {AuthCall("getCurrentUser", "checkAuth", lastOp.count + 1, status, storage,
                           storage[TokenKey])}
          /\ lastOp' = Op("checkAuth", 0, lastOp.count + 1)
  /\ UNCHANGED <<pollerVars, view, props, storage, todos, cards, goals, sessions, nowMs,
                 location>>

\* The store after getCurrentUser has answered, in login and in checkAuth.
authenticated(s, token) ==
  [s EXCEPT !.token = token, !.user = "userData", !.isAuthenticated = TRUE,
            !.isLoading = FALSE]

\* The user data request settles in login or in checkAuth.
getCurrentUserResponse(c) ==
  /\ storeKind = "auth" /\ view = "mounted"
  /\ c \in calls /\ c.fn = "getCurrentUser"
  /\ LET out == Intercepted(c)
     IN /\ location' = out.location
        /\ view' = ViewAfter(out)
        /\ IF c.status = 200
           THEN /\ storage' = out.storage
                /\ state' = authenticated(state, c.token)
                /\ lastOp' = Returned(IF c.action = "login" THEN "loginReturn"
                                      ELSE "checkAuthReturn", 1, c.first)
           ELSE IF c.action = "login"
           THEN /\ storage' = out.storage
                /\ state' = [state EXCEPT !.isLoading = FALSE, !.error = "Failed to login"]
                /\ lastOp' = Returned("loginReturn", 0, c.first)
           ELSE /\ storage' = [out.storage EXCEPT ![TokenKey] = Absent]
                /\ state' = [logout(state) EXCEPT !.isLoading = FALSE]
                /\ lastOp' = Returned("checkAuthReturn", 0, c.first)
  /\ calls' = calls \ {c}
  /\ UNCHANGED <<pollerVars, props, todos, cards, goals, sessions, nowMs>>

\* updateUserProfile(data): it awaits nothing, so it runs in one piece.
updateUserProfile ==
  /\ storeKind = "auth" /\ view = "mounted"
  /\ state' = IF state.user = NULL
              THEN [state EXCEPT !.isLoading = FALSE, !.error = "User not logged in"]
              ELSE [state EXCEPT !.user = "updatedUser", !.isLoading = FALSE, !.error = NULL]
  /\ lastOp' = Returned("updateUserProfileReturn", IF state.user = NULL THEN 0 ELSE 1, 0)
  /\ UNCHANGED <<pollerVars, view, props, storage, todos, cards, goals, sessions, nowMs,
                 location, calls>>

\* Another store calls an API function (getUserContent from the content page).
otherRequest ==
  /\ storeKind = "auth" /\ view = "mounted"
  /\ lastOp.count < MaxAuthCalls
  /\ \E status \in AuthAnswers :
       calls' = calls \cup
         {AuthCall("getUserContent", "other", lastOp.count + 1, status, storage, Absent)}
  /\ lastOp' = Op("request", 0, lastOp.count + 1)
  /\ UNCHANGED <<pollerVars, state, view, props, storage, todos, cards, goals, sessions,
                 nowMs, location>>

\* Its answer passes the response interceptor; the auth store is not told.
otherResponse(c) ==
  /\ storeKind = "auth" /\ view = "mounted"
  /\ c \in calls /\ c.action = "other"
  /\ LET out == Intercepted(c)
     IN /\ storage' = out.storage
        /\ location' = out.location
        /\ view' = ViewAfter(out)
        /\ lastOp' = [op |-> out.result, id |-> c.status, n |-> c.n, count |-> lastOp.count]
  /\ calls' = calls \ {c}
  /\ UNCHANGED <<pollerVars, state, props, todos, cards, goals, sessions, nowMs>>

\* The login document is loaded after the hard redirect: the module is
\* loaded anew, and the responses of the old document's requests go nowhere.
documentLoad ==
  /\ storeKind = "auth"
  /\ view = "leaving"
  /\ view' = "mounted"
  /\ state' = AuthState(storage[TokenKey])
  /\ calls' = {}
  /\ lastOp' = [op |-> "documentLoad", id |-> 0, n |-> 0, count |-> lastOp.count]
  /\ UNCHANGED <<pollerVars, props, storage, todos, cards, goals, sessions, nowMs, location>>

NextAuth ==
  \/ login
  \/ \E c \in calls : loginResponse(c)
  \/ register
  \/ \E c \in calls : registerResponse(c)
  \/ handleLogout
  \/ checkAuth
  \/ \E c \in calls : getCurrentUserResponse(c)
  \/ updateUserProfile
  \/ otherRequest
  \/ \E c \in calls : otherResponse(c)
  \/ documentLoad

SpecAuth == AuthInit /\ [][NextAuth]_vars

\* ========================================================= the content store
\* useContentStore under setSearchTerm and setSort: contents, searchTerm,
\* sortBy and sortOrder, isLoading and error are the fields of the record
\* state.  The server holds two items;
\* GET /content answers the items whose title contains the search term, in
\* the order asked for.
ServerItems ==
  {[id |-> "c1", title |-> "ab", created_at |-> 1],
   [id |-> "c2", title |-> "b", created_at |-> 2]}

\* Does the title contain the term?  (The terms are single letters.)
Matches(item, term) ==
  \/ term = ""
  \/ term = "a" /\ item.title = "ab"
  \/ term = "b"

\* item x comes before item y under the sort.
Before(x, y, by, order) ==
  LET kx == IF by = "title" THEN (IF x.title = "ab" THEN 1 ELSE 2) ELSE x.created_at
      ky == IF by = "title" THEN (IF y.title = "ab" THEN 1 ELSE 2) ELSE y.created_at
  IN IF order = "asc" THEN kx < ky ELSE kx > ky

\* The answer to GET /content with these parameters: search is "" when the
\* parameter is not sent.
ServerContents(search, by, order) ==
  LET found == {x \in ServerItems : Matches(x, search)}
  IN CHOOSE s \in [1..Cardinality(found) -> found] :
       /\ \A i, j \in 1..Cardinality(found) : i < j => Before(s[i], s[j], by, order)

ContentInit ==
  /\ storeKind = "content"
  /\ job = [k \in Keys |-> "none"]
  /\ current = NullJob
  /\ isLoading = FALSE
  /\ error = NULL
  /\ flows = [f \in Flows |-> IdleFlow]
  /\ requests = {}
  /\ directCount = 0
  /\ clock = 0
  /\ props = ApiProps
  /\ view = "mounted"
  /\ storage = [k \in SlotsOf(ApiProps.component) |-> Token]
  /\ todos = <<>>
  /\ cards = <<>>
  /\ goals = <<>>
  /\ sessions = <<>>
  /\ nowMs = 0
  /\ location = "/content"
  /\ calls = {}
  /\ lastOp = NoOp
  /\ state = [contents |-> <<>>, searchTerm |-> "", sortBy |-> "created_at",
              sortOrder |-> "desc", isLoading |-> FALSE, error |-> NULL]

\* fetchContents after the await: the store with the answer of call c.
fetchContentsSettle(s, c) ==
  IF c.status = 200 THEN [s EXCEPT !.contents = c.result, !.isLoading = FALSE]
  ELSE [s EXCEPT !.isLoading = FALSE, !.error = "Failed to fetch contents"]

\* fetchContents() up to the await, on the store s the caller has just
\* written: the parameters are read from the store, and the request carries
\* the answer the server gives to them.  lastOp.id counts the fetches that
\* have failed so far.
fetchContents(s, name) ==
  /\ storeKind = "content"
  /\ lastOp.count < MaxCalls
  /\ state' = [s EXCEPT !.isLoading = TRUE, !.error = NULL]
  /\ \E status \in {200, 500} :
       calls' = calls \cup
         {[fn |-> "getUserContent", n |-> lastOp.count + 1, status |-> status,
           authorization |-> requestInterceptor(storage),
           result |-> ServerContents(s.searchTerm, s.sortBy, s.sortOrder)]}
  /\ lastOp' = [op |-> name, id |-> lastOp.id, n |-> lastOp.count + 1,
                count |-> lastOp.count + 1]
  /\ UNCHANGED <<pollerVars, view, props, storage, todos, cards, goals, sessions, nowMs,
                 location>>

setSearchTerm(term) ==
  fetchContents([state EXCEPT !.searchTerm = term], "setSearchTerm")

setSort(sortBy, sortOrder) ==
  fetchContents([state EXCEPT !.sortBy = sortBy, !.sortOrder = sortOrder], "setSort")

\* The request of a fetchContents settles.
fetchContentsResponse(c) ==
  /\ storeKind = "content"
  /\ c \in calls
  /\ state' = fetchContentsSettle(state, c)
  /\ calls' = calls \ {c}
  /\ lastOp' = [op |-> IF c.status = 200 THEN "resolved" ELSE "rejected",
                id |-> IF c.status = 200 THEN lastOp.id ELSE lastOp.id + 1,
                n |-> c.n, count |-> lastOp.count]
  /\ UNCHANGED <<pollerVars, view, props, storage, todos, cards, goals, sessions, nowMs,
                 location>>

NextContent ==
  \/ \E term \in {"", "a", "b"} : setSearchTerm(term)
  \/ \E o \in {<<"created_at", "desc">>, <<"created_at", "asc">>, <<"title", "desc">>} : setSort(o[1], o[2])
  \/ \E c \in calls : fetchContentsResponse(c)

SpecContent == ContentInit /\ [][NextContent]_vars

\* ======================================================== the reminder store
\* useReminderStore under fetchReminders, fetchUpcomingReminders and
\* completeReminder: reminders, upcomingReminders, isLoading and error are
\* the fields of the record state.  A reminder is its id and its
\* is_completed flag; the lists the server answers with are inputs.
Reminder(id, done) == [id |-> id, is_completed |-> done]
ReminderLists ==
  {<<>>, <<Reminder("r1", FALSE)>>,
   <<Reminder("r1", FALSE), Reminder("r2", FALSE)>>,
   <<Reminder("r2", TRUE), Reminder("r1", FALSE)>>}
UpcomingLists ==
  {<<>>, <<Reminder("r2", FALSE)>>, <<Reminder("r1", FALSE), Reminder("r2", FALSE)>>}

ReminderInit ==
  /\ storeKind = "reminder"
  /\ job = [k \in Keys |-> "none"]
  /\ current = NullJob
  /\ isLoading = FALSE
  /\ error = NULL
  /\ flows = [f \in Flows |-> IdleFlow]
  /\ requests = {}
  /\ directCount = 0
  /\ clock = 0
  /\ props = ApiProps
  /\ view = "mounted"
  /\ storage = [k \in SlotsOf(ApiProps.component) |-> Token]
  /\ todos = <<>>
  /\ cards = <<>>
  /\ goals = <<>>
  /\ sessions = <<>>
  /\ nowMs = 0
  /\ location = "/reminders"
  /\ calls = {}
  /\ lastOp = NoOp
  /\ state = [reminders |-> <<>>, upcomingReminders |-> <<>>, isLoading |-> FALSE,
              error |-> NULL]

\* A call of the reminders API on behalf of a store action.
ReminderCall(fn, id, status, result) ==
  [fn |-> fn, id |-> id, n |-> lastOp.count + 1, status |-> status,
   authorization |-> requestInterceptor(storage), result |-> result]

\* An action of the store up to its await: set({ isLoading: true, error: null })
\* and the request.
reminderRequest(fn, id, results) ==
  /\ storeKind = "reminder"
  /\ lastOp.count < MaxCalls
  /\ state' = [state EXCEPT !.isLoading = TRUE, !.error = NULL]
  /\ \E status \in {200, 500}, result \in results :
       calls' = calls \cup {ReminderCall(fn, id, status, result)}
  /\ lastOp' = Op(fn, 0, lastOp.count + 1)
  /\ UNCHANGED <<pollerVars, view, props, storage, todos, cards, goals, sessions, nowMs,
                 location>>

fetchReminders == reminderRequest("getReminders", "-", ReminderLists)

fetchUpcomingReminders == reminderRequest("getUpcomingReminders", "-", UpcomingLists)

completeReminder(reminderId) == reminderRequest("updateReminder", reminderId, {<<>>})

\* A faulty completeReminder: the reminder stays in upcomingReminders.
completeReminderKeepsUpcoming(s, c) ==
  IF c.status = 200
  THEN [s EXCEPT !.reminders = [i \in 1..Len(s.reminders) |->
                                  IF s.reminders[i].id = c.id
                                  THEN [s.reminders[i] EXCEPT !.is_completed = TRUE]
                                  ELSE s.reminders[i]],
                 !.isLoading = FALSE]
  ELSE [s EXCEPT !.isLoading = FALSE, !.error = "Failed to complete reminder"]

\* completeReminder after the await.
completeReminderSettle(s, c) ==
  IF c.status = 200
  THEN [s EXCEPT !.reminders = [i \in 1..Len(s.reminders) |->
                                  IF s.reminders[i].id = c.id
                                  THEN [s.reminders[i] EXCEPT !.is_completed = TRUE]
                                  ELSE s.reminders[i]],
                 !.upcomingReminders = SelectSeq(s.upcomingReminders,
                                                 LAMBDA r : r.id # c.id),
                 !.isLoading = FALSE]
  ELSE [s EXCEPT !.isLoading = FALSE, !.error = "Failed to complete reminder"]

\* fetchReminders and fetchUpcomingReminders after the await.
fetchRemindersSettle(s, c) ==
  IF c.status = 200 THEN [s EXCEPT !.reminders = c.result, !.isLoading = FALSE]
  ELSE [s EXCEPT !.isLoading = FALSE, !.error = "Failed to fetch reminders"]

fetchUpcomingRemindersSettle(s, c) ==
  IF c.status = 200 THEN [s EXCEPT !.upcomingReminders = c.result, !.isLoading = FALSE]
  ELSE [s EXCEPT !.isLoading = FALSE, !.error = "Failed to fetch upcoming reminders"]

\* The request of an action settles and the action returns.
reminderResponse(c) ==
  /\ storeKind = "reminder"
  /\ c \in calls
  /\ state' = CASE c.fn = "getReminders" -> fetchRemindersSettle(state, c)
                [] c.fn = "getUpcomingReminders" -> fetchUpcomingRemindersSettle(state, c)
                [] c.fn = "updateReminder" -> completeReminderSettle(state, c)
  /\ calls' = calls \ {c}
  /\ lastOp' = Returned(IF c.fn = "updateReminder" THEN "completeReminderReturn"
                        ELSE "fetchReturn",
                        IF c.status = 200 THEN 1 ELSE 0, c.n)
  /\ UNCHANGED <<pollerVars, view, props, storage, todos, cards, goals, sessions, nowMs,
                 location>>

NextReminder ==
  \/ fetchReminders
  \/ fetchUpcomingReminders
  \/ \E id \in {"r1", "r2"} : completeReminder(id)
  \/ \E c \in calls : reminderResponse(c)

SpecReminder == ReminderInit /\ [][NextReminder]_vars

\* ================================================================ claims
\* Request r settles in this step: it is in flight now and not afterwards.
Settles(r) ==
  /\ r \in requests
  /\ \A q \in requests' : ~(q.flow = r.flow /\ q.kind = r.kind /\ q.n = r.n)

\* The kinds of request issued through fetchTranscription / fetchSpecificGeneration.
FetchKinds == {"direct", "initial", "tick"}

\* C1: once a status fetch of a poll session returns a completed or failed
\* job, the session's interval is cleared in that very step, and a session
\* that has stopped issues no further status fetch.
C1_StopsOnTerminal ==
  [][\A f \in Flows :
       /\ (\E r \in requests : /\ r.flow = f /\ r.kind \in {"initial", "tick"}
                                /\ r.resp \in Terminal /\ Settles(r))
            => (~flows'[f].intervalActive /\ flows'[f].stopCause # "none")
       /\ flows[f].stopCause # "none"
            => (~flows'[f].intervalActive /\ flows'[f].fetchCount = flows[f].fetchCount)
    ]_vars

\* C1 witness: a session stopped by a terminal status that an interval tick fetched.
C1_Witness ==
  \E f \in Flows : /\ flows[f].stopCause = "terminal"
                    /\ flows[f].fetchCount >= 2
                    /\ current.status \in Terminal

\* C2: no interval is active, hence no status fetch can be issued, once more
\* than 10 minutes have passed since the interval was set up; a session whose
\* job never becomes terminal is stopped by the safety timer at that point.
C2_StopsAfterWindow ==
  \A f \in Flows :
    /\ flows[f].intervalActive => Now <= SetupMs(f) + 10 * 60 * 1000
    /\ flows[f].stopCause = "timeout" => ~flows[f].intervalActive

\* C2 witness: the safety timer stopped a session whose job is still not terminal.
C2_Witness ==
  \E f \in Flows : /\ flows[f].stopCause = "timeout"
                    /\ job[flows[f].key] \in {"pending", "processing"}

\* C9 as stated: a session that the safety timer stops while its job is
\* still pending has issued exactly 120 status fetches.
C9_Exactly120 ==
  \A f \in Flows :
    (flows[f].stopCause = "timeout" /\ job[flows[f].key] = "pending")
      => flows[f].fetchCount = 120

\* C9 amended: such a session has issued 120 or 121 status fetches: the
\* initial check and 119 or 120 interval ticks, the 120th tick being due at
\* the same time as the safety timeout.
C9_120Or121 ==
  \A f \in Flows :
    (flows[f].stopCause = "timeout" /\ job[flows[f].key] = "pending")
      => flows[f].fetchCount \in {120, 121}

\* C9 witness: timed out on a pending job after 120 status fetches.
C9_Witness ==
  \E f \in Flows : /\ flows[f].stopCause = "timeout"
                    /\ job[flows[f].key] = "pending"
                    /\ flows[f].fetchCount = 120
                    /\ requests = {}

\* C3 as stated: when a status fetch fails with 404, then once it has settled
\* error is null, the current-job record is null, isLoading is false and the
\* poll session that made the fetch has no active interval.
C3_NotFoundErrorNull ==
  [][\A r \in requests :
       (r.kind \in FetchKinds /\ r.resp = "404" /\ Settles(r)) =>
         /\ error' = NULL
         /\ current' = NullJob
         /\ isLoading' = FALSE
         /\ r.flow \in Flows => ~flows'[r.flow].intervalActive
    ]_vars

\* C3 amended: a status fetch that fails with 404 does not write the error
\* field (it stays as it was just before the fetch settled, which is null
\* unless another request of the store failed while the fetch was in flight);
\* the current-job record is null, isLoading is false and the poll session
\* that made the fetch has no active interval.
C3_NotFoundNoErrorWritten ==
  [][\A r \in requests :
       (r.kind \in FetchKinds /\ r.resp = "404" /\ Settles(r)) =>
         /\ error' = error
         /\ current' = NullJob
         /\ isLoading' = FALSE
         /\ r.flow \in Flows =>
              (~flows'[r.flow].intervalActive /\ flows'[r.flow].stopCause # "none")
    ]_vars

\* C3 witness: a poll session's check got 404 and the session stopped, with
\* no current job and no error.
C3_Witness ==
  \E f \in Flows : /\ flows[f].stopCause = "nojob"
                    /\ current = NullJob /\ error = NULL /\ ~isLoading

\* C4: whenever a start operation has returned true it has made exactly one
\* immediate status fetch, and in the step in which it returns true the
\* current-job record holds the job that fetch brought.
C4_StartFetchesOnce ==
  [][\A f \in Flows :
       (flows[f].startRet = "none" /\ flows'[f].startRet = "true") =>
         /\ flows'[f].startFetches = 1
         /\ flows'[f].firstObs \in Status
         /\ current' = JobRecord(flows[f].key, flows'[f].firstObs)
    ]_vars

\* C5 as stated: when a tick's status fetch fails with an error other than
\* 404 while the interval is active, the interval stays active.
C5_ErrorKeepsPolling ==
  [][\A r \in requests :
       (r.kind = "tick" /\ r.resp = "err" /\ Settles(r)
          /\ flows[r.flow].intervalActive) =>
         flows'[r.flow].intervalActive
    ]_vars

\* C5 amended: when a tick's status fetch fails with an error other than 404
\* the poll session stops: its interval is cleared in that step, and a
\* stopped session issues no further status fetch.
C5_ErrorStopsPolling ==
  [][/\ \A r \in requests :
          (r.kind = "tick" /\ r.resp = "err" /\ Settles(r)) =>
            (~flows'[r.flow].intervalActive /\ flows'[r.flow].stopCause # "none")
     /\ \A f \in Flows :
          flows[f].stopCause = "error" =>
            (~flows'[f].intervalActive /\ flows'[f].fetchCount = flows[f].fetchCount)
    ]_vars

\* C5 witness: a session stopped by a failed status fetch of an interval tick.
C5_Witness ==
  \E f \in Flows : flows[f].stopCause = "error" /\ flows[f].fetchCount >= 2

\* C6 as stated: when a status fetch fails with an error other than 404,
\* error is set to a message and the current-job record has the value it had
\* when the fetch was issued.
C6_ErrorKeepsValueBeforeFetch ==
  [][\A r \in requests :
       (r.kind \in FetchKinds /\ r.resp = "err" /\ Settles(r)) =>
         (error' # NULL /\ current' = r.before)
    ]_vars

\* C6 amended: when a status fetch fails with an error other than 404, error
\* is set to a message and the failed fetch does not write the current-job
\* record: it keeps the value it had just before the failure settled (which
\* is the value from before the fetch unless another request of the store
\* settled while the fetch was in flight).
C6_ErrorLeavesCurrent ==
  [][\A r \in requests :
       (r.kind \in FetchKinds /\ r.resp = "err" /\ Settles(r)) =>
         (error' # NULL /\ current' = current /\ isLoading' = FALSE)
    ]_vars

\* C6 witness: a failed status fetch has surfaced its error while the
\* previously fetched job is still the current one.
C6_Witness ==
  /\ error = FetchFailedMsg
  /\ current # NullJob
  /\ \E f \in Flows : flows[f].stopCause = "error"

\* C7: no two poll sessions with an active interval have the same job key.
C7_OneTimerPerKey ==
  \A f, g \in Flows :
    (f # g /\ flows[f].intervalActive /\ flows[g].intervalActive)
      => flows[f].key # flows[g].key

\* C8: a poll session that has stopped on a terminal status never afterwards
\* replaces a terminal current-job record by a non-terminal one.
C8_TerminalNotOverwritten ==
  [][\A r \in requests :
       (r.flow \in Flows /\ r.kind = "tick" /\ Settles(r)
          /\ flows[r.flow].stopCause = "terminal"
          /\ current.status \in Terminal) =>
         current'.status \in Terminal
    ]_vars

C11_DestroyedOnUnmount ==
  [][view' = "unmounted" =>
       \A f \in Flows :
         /\ ~flows'[f].intervalActive
         /\ view = "unmounted" =>
              /\ flows'[f].fetchCount = flows[f].fetchCount
              /\ <<current', isLoading', error'>> = <<current, isLoading, error>>
    ]_vars

\* C18: when the start request of a start flow has failed, then once the
\* flow's initial status check has settled the error field holds the
\* start-failure message and the current-job record has the value it had when
\* the start request failed.
C18_StartFailureSurfaced ==
  [][\A r \in requests :
       (r.flow \in Flows /\ r.kind = "initial" /\ Settles(r)
          /\ flows[r.flow].startRet = "false") =>
         (error' = StartFailedMsg /\ current' = r.before)
    ]_vars

\* C19: over an interval tick, from before it starts to after it settles,
\* error and isLoading keep their values.  (A fetch that settles always
\* leaves isLoading false, so isLoading is the same before and after exactly
\* when it is false as the tick starts.)
C19_TickWritesOnlyCurrent ==
  [][/\ \A r \in requests :
          (r.kind = "tick" /\ Settles(r)) => error' = r.errorBefore
     /\ \A f \in Flows :
          (flows[f].intervalActive /\ flows'[f].fetchCount = flows[f].fetchCount + 1)
            => isLoading = FALSE
    ]_vars

\* C20: while a poll session's interval is active the current-job record is
\* null or a job of the session's key, and a step that changes it is the
\* settling of one of that session's interval ticks.
C20_SingleWriter ==
  [][\A f \in Flows :
       flows[f].intervalActive =>
         /\ current.key \in {"-", flows[f].key}
         /\ current' # current =>
              \E r \in requests : r.flow = f /\ r.kind = "tick" /\ Settles(r)
    ]_vars

\* A mount or remount of a localStorage component happens in this step.
Mounts == view \in {"fresh", "unmounted"} /\ view' # view

\* The collection kept under a slot, and the initial prop for it.
Collection(key) ==
  CASE key = TodoKey -> todos
    [] key = FlashcardKey -> cards
    [] key = GoalsKey -> goals
    [] key = SessionsKey -> sessions

InitialProp(key) ==
  CASE key = TodoKey -> props.initialTodos
    [] key = FlashcardKey -> props.initialCards
    [] key = GoalsKey -> props.initialGoals
    [] key = SessionsKey -> props.initialSessions

\* What the mount leaves in a collection: the slot's array, or the initial
\* collection when the slot holds nothing or no JSON.
SlotOrInitial(key, initial) ==
  IF storage[key].kind = "json" THEN storage[key].val ELSE initial

\* C12: after every step of a mounted component that changes a collection,
\* the collection's slot holds the JSON text of the whole new collection.
C12_SlotHoldsCollection ==
  [][(view = "mounted" /\ view' = "mounted") =>
       /\ todos' # todos => storage'[TodoKey] = JSONstringify(TodoKey, todos')
       /\ cards' # cards => storage'[FlashcardKey] = JSONstringify(FlashcardKey, cards')
       /\ goals' # goals => storage'[GoalsKey] = JSONstringify(GoalsKey, goals')
       /\ sessions' # sessions =>
            storage'[SessionsKey] = JSONstringify(SessionsKey, sessions')
    ]_vars

\* C13 as stated: a mount sets each collection to the array in its slot, and
\* to the empty collection when the slot is absent or holds no JSON; no
\* exception escapes.
C13_MountEmptyWhenNoJSON ==
  [][Mounts =>
       /\ view' = "mounted"
       /\ \A k \in SlotsOf(props.component) : Collection(k)' = SlotOrInitial(k, <<>>)
    ]_vars

\* C13 amended: a mount sets each collection to the array in its slot, and to
\* the component's initial prop (initialTodos, initialCards, initialGoals,
\* initialSessions; empty by default) when the slot is absent, empty or holds
\* no JSON; no exception escapes.  The text that is no JSON is never used; it
\* is overwritten by the save effect, except in a Todo or FlashcardSet slot
\* while the collection is empty.
C13_MountLoadsSlotOrInitial ==
  [][Mounts =>
       /\ view' = "mounted"
       /\ \A k \in SlotsOf(props.component) :
            /\ Collection(k)' = SlotOrInitial(k, InitialProp(k))
            /\ storage'[k] = Malformed =>
                 (k \in {TodoKey, FlashcardKey} /\ Collection(k)' = <<>>)
    ]_vars

\* C13 witness: a FlashcardSet given initial cards was mounted on a slot
\* holding nothing it could parse, or a Todo on a slot holding text that is
\* no JSON.
C13_Witness ==
  /\ lastOp.op = "mount"
  /\ view = "mounted"
  /\ \/ props.component = "Todo" /\ storage[TodoKey] = Malformed /\ todos = <<>>
     \/ cards # <<>> /\ cards = props.initialCards

\* C14: when a component is mounted again after an unmount, every collection
\* is what it was at the unmount: the same items in the same order with the
\* same field values.
C14_RoundTrip ==
  [][(view = "unmounted" /\ view' = "mounted") =>
       (todos' = todos /\ cards' = cards /\ goals' = goals /\ sessions' = sessions)
    ]_vars

\* C15: deleteGoal(id) removes the goals with that id and the sessions whose
\* goalId is id, M of them, and nothing else: the other goals and sessions
\* keep their values and their order, and both slots hold the JSON text of
\* the collections that result.
C15_DeleteGoalCascades ==
  [][\A id \in ItemIds :
       (lastOp'.op = "deleteGoal" /\ lastOp'.id = id) =>
         /\ id \notin Ids(goals')
         /\ \A i \in 1..Len(sessions') : sessions'[i].goalId # id
         /\ goals' = SelectSeq(goals, LAMBDA g : g.id # id)
         /\ sessions' = SelectSeq(sessions, LAMBDA s : s.goalId # id)
         /\ Len(sessions) - Len(sessions') = lastOp'.n
         /\ storage'[GoalsKey] = JSONstringify(GoalsKey, goals')
         /\ storage'[SessionsKey] = JSONstringify(SessionsKey, sessions')
    ]_vars

\* C15 witness: a goal with at least one session was deleted, and another
\* goal with a session of its own is still there.
C15_Witness ==
  /\ lastOp.op = "deleteGoal"
  /\ lastOp.n >= 1
  /\ \E i \in 1..Len(sessions) : sessions[i].goalId \in Ids(goals)

\* No two items of the sequence have the same id.
UniqueIds(s) == \A i, j \in 1..Len(s) : i # j => s[i].id # s[j].id

\* C16: no two items of a collection, in memory or in its slot, have the same id.
C16_UniqueIds ==
  /\ UniqueIds(todos) /\ UniqueIds(cards) /\ UniqueIds(goals) /\ UniqueIds(sessions)
  /\ \A k \in DOMAIN storage : storage[k].kind = "json" => UniqueIds(storage[k].val)

\* C17: when a call of an API function is answered with status 401, then in
\* the step in which it settles the token is removed from localStorage, the
\* location is set to the login view and the caller's promise is rejected.
C17_UnauthorizedEvictsToken ==
  [][\A c \in calls :
       (c \notin calls' /\ c.status = 401) =>
         /\ storage'[TokenKey] = Absent
         /\ location' = "/login"
         /\ lastOp'.op = "rejected" /\ lastOp'.n = c.n /\ lastOp'.id = 401
    ]_vars

\* C17 witness: a call sent with the bearer token was answered 401 and was
\* rejected; the token is gone and the location is the login view, while
\* another call sent with the token is still in flight.
C17_Witness ==
  /\ lastOp.op = "rejected" /\ lastOp.id = 401
  /\ storage[TokenKey] = Absent
  /\ location = "/login"
  /\ \E c \in calls : c.authorization = "Bearer"

\* C21: once the safety timeout has stopped a poll session, no later step
\* changes the current-job record or the error field: a status request that
\* was in flight when the window expired writes nothing when it settles.
\* (One flow and no direct fetch: the session is the store's only writer.)
C21_NothingAfterTimeout ==
  [][\A f \in Flows :
       flows[f].stopCause = "timeout" => (current' = current /\ error' = error)
    ]_vars

\* C22: at no time are two status fetches of one poll session (its initial
\* check and its interval ticks) in flight together.
C22_OneFetchInFlight ==
  \A f \in Flows :
    Cardinality({r \in requests : r.flow = f /\ r.kind \in {"initial", "tick"}}) <= 1

\* C24: isLoading is true exactly while a request of the store is in flight.
C24_LoadingIffInFlight ==
  isLoading <=> (requests # {})

\* C29: in FlashcardSet currentCard is null or an index of cards
\* (0 <= currentCard < cards.length), and in edit mode it is null; nextCard
\* or updateConfidence on the last card ends the study session: mode becomes
\* 'edit' and currentCard null.
C29_CurrentCardInRange ==
  /\ [](props.component = "FlashcardSet" =>
          /\ \/ state.currentCard = NullIndex
             \/ (0 <= state.currentCard[1] /\ state.currentCard[1] < Len(cards))
          /\ state.mode = "edit" => state.currentCard = NullIndex)
  /\ [][(/\ props.component = "FlashcardSet"
         /\ lastOp'.count = lastOp.count + 1
         /\ lastOp'.op \in {"nextCard", "updateConfidence"}
         /\ state.currentCard = Index(Len(cards) - 1))
          => (state'.mode = "edit" /\ state'.currentCard = NullIndex)
       ]_vars

\* C29 witness: a deck of two cards was studied to its end: nextCard on the
\* last card has put the component back in edit mode with no current card.
C29_Witness ==
  /\ props.component = "FlashcardSet"
  /\ lastOp.op = "nextCard"
  /\ Len(cards) >= 2
  /\ state.mode = "edit" /\ state.currentCard = NullIndex

C25_AuthenticatedIffUser ==
  storeKind = "auth" =>
    /\ state.isAuthenticated <=> state.user # NULL
    /\ state.isAuthenticated => state.token # Absent

\* C26: when login returns false, the token slot does not hold an access
\* token written by that call, token, user and isAuthenticated of the store
\* are as before the step, and error is set.
C26_FailedLoginLeavesNoToken ==
  [][(storeKind = "auth" /\ lastOp' # lastOp /\ lastOp'.op = "loginReturn"
        /\ lastOp'.id = 0) =>
       /\ storage'[TokenKey] # AccessToken(lastOp'.n)
       /\ state'.token = state.token
       /\ state'.user = state.user
       /\ state'.isAuthenticated = state.isAuthenticated
       /\ state'.error # NULL
    ]_vars

\* C27: after logout has returned, and until another action is started, the
\* token slot is empty and the store has isAuthenticated false and user and
\* token null: a login or checkAuth in flight when logout ran changes none
\* of them when it completes.
C27_LogoutIsFinal ==
  [][(storeKind = "auth" /\ lastOp.op = "logout") =>
       /\ storage'[TokenKey] = Absent
       /\ state'.isAuthenticated = FALSE
       /\ state'.user = NULL
       /\ state'.token = Absent
    ]_vars

\* C23: once every fetch that setSearchTerm and setSort triggered has settled,
\* all of them successfully, contents is the server's answer for the store's
\* current searchTerm, sortBy and sortOrder.
C23_ContentsMatchParameters ==
  (storeKind = "content" /\ calls = {} /\ lastOp.count > 0 /\ lastOp.id = 0) =>
    state.contents = ServerContents(state.searchTerm, state.sortBy, state.sortOrder)

====
